---------------------------- MODULE Spec2Model ----------------------------
(***************************************************************************)
(* A model of the VideoSummarizer repository.                              *)
(*                                                                         *)
(*   timestamps.py : the detection loop that turns transcript segments     *)
(*                   into {time, label} markers          (SpecTimestamps)  *)
(*   main.py       : VideoSummarizer._correct_transcript (SpecCorrect),    *)
(*                   VideoSummarizer.summarize_text      (SpecSummarize),  *)
(*                   VideoSummarizer.summarize_video     (SpecVideo)       *)
(*                                                                         *)
(* A Python str is a sequence of one-character strings.  Python's None is  *)
(* NoneVal where a text may stand, and the string "None" elsewhere.        *)
(* Times are integers in hundredths of a second, similarities integers in  *)
(* hundredths.                                                             *)
(***************************************************************************)
EXTENDS Integers, Sequences, FiniteSets, TLC

VARIABLES
    \* timestamps.py
    segments,       \* result["segments"]: sequence of [start, text]
    embeddings,     \* embed_model.encode(texts): one embedding per segment
    i,              \* the loop variable of line 30 (0-based)
    timestamps,     \* the list built by the loop
    srcIdx,         \* history: the 0-based segment index each marker came from
    \* main.py, _correct_transcript
    ctInput,        \* the argument of _correct_transcript
    text,           \* its local variable text
    k,              \* position in correction_patterns (1-based)
    ctPc,           \* "patterns" | "punct" | "capitalize" | "done" | "idle"
    \* main.py, summarize_text and summarize_video
    pc,             \* position in summarize_video / summarize_text
    video,          \* the input video: what its audio track says, if any
    fileExists,     \* whether temp_audio.wav is on disk
    audio_file,     \* summarize_video's local audio_file
    transcription,  \* summarize_video's local transcription
    summary,        \* summarize_text's return value
    result,         \* summarize_video's return value
    calls,          \* history: the stages invoked, in order
    raised,         \* history: the stages in which an exception was raised
    console,        \* what the except clauses printed
    modelCalls      \* history: the (max_length, min_length, words) given to self.summarizer

tsVars  == <<segments, embeddings, i, timestamps, srcIdx>>
ctVars  == <<ctInput, text, k, ctPc>>
vidVars == <<pc, video, fileExists, audio_file, transcription, summary, result,
             calls, raised, console, modelCalls>>
vars    == <<tsVars, ctVars, vidVars>>

-----------------------------------------------------------------------------
(* Characters and strings                                                  *)

NoneVal == <<"None">>

Uppers == <<"A","B","C","D","E","F","G","H","I","J","K","L","M",
            "N","O","P","Q","R","S","T","U","V","W","X","Y","Z">>
Lowers == <<"a","b","c","d","e","f","g","h","i","j","k","l","m",
            "n","o","p","q","r","s","t","u","v","w","x","y","z">>

IsUpper(c) == \E j \in DOMAIN Uppers : Uppers[j] = c
IsLower(c) == \E j \in DOMAIN Lowers : Lowers[j] = c

\* str.lower() / str.upper() on one character
LowerOf(c) == IF IsUpper(c) THEN Lowers[CHOOSE j \in DOMAIN Uppers : Uppers[j] = c] ELSE c
UpperOf(c) == IF IsLower(c) THEN Uppers[CHOOSE j \in DOMAIN Lowers : Lowers[j] = c] ELSE c

\* the regex classes \w, \s and [.,!?]
IsWord(c)  == IsUpper(c) \/ IsLower(c) \/ c \in {"0","1","2","3","4","5","6","7","8","9","_"}
IsSpace(c) == c \in {" ", "\n", "\t"}
IsPunct(c) == c \in {".", ",", "!", "?"}

Rep(c, n) == [j \in 1..n |-> c]
Min(a, b) == IF a < b THEN a ELSE b
Max(a, b) == IF a > b THEN a ELSE b

\* the least element of a non-empty set of positions
Least(ps) == CHOOSE p \in ps : \A h \in ps : p <= h

\* s[:n]
Take(s, n) == SubSeq(s, 1, Min(n, Len(s)))

-----------------------------------------------------------------------------
(* timestamps.py                                                           *)

SIMILARITY_THRESHOLD == 65
LabelMax == 60
MaxSegs == 3

\* str.strip(): leading, then trailing whitespace removed
RECURSIVE LStrip(_)
LStrip(s) == IF s # <<>> /\ IsSpace(Head(s)) THEN LStrip(Tail(s)) ELSE s
RECURSIVE RStrip(_)
RStrip(s) == IF s # <<>> /\ IsSpace(s[Len(s)]) THEN RStrip(SubSeq(s, 1, Len(s) - 1)) ELSE s
StripLeftOnly(s) == LStrip(s)
Strip(s) == RStrip(LStrip(s))

\* str.split(sep) for a one-character separator: the list of the parts
\* between the separators, from position p on
RECURSIVE SplitFrom(_, _, _)
SplitFrom(s, sep, p) ==
    LET seps == {h \in p..Len(s) : s[h] = sep}
    IN  IF seps = {} THEN <<SubSeq(s, p, Len(s))>>
        ELSE <<SubSeq(s, p, Least(seps) - 1)>> \o SplitFrom(s, sep, Least(seps) + 1)
Split(s, sep) == SplitFrom(s, sep, 1)

Ellipsis == <<".", ".", ".">>

\* segments[i]['text'].strip().split('.')[0][:60] + "..."
LabelOf(t) == Take(Split(Strip(t), ".")[1], LabelMax) \o Ellipsis

Digit == <<"0","1","2","3","4","5","6","7","8","9">>
RECURSIVE Decimal(_)
Decimal(n) == IF n < 10 THEN <<Digit[n + 1]>> ELSE Decimal(n \div 10) \o <<Digit[(n % 10) + 1]>>

\* format spec 02d: decimal digits, zero-padded on the left to width 2 at least
FmtUnpadded(n) == Decimal(n)
Fmt02d(n) == IF Len(Decimal(n)) < 2 THEN Rep("0", 2 - Len(Decimal(n))) \o Decimal(n) ELSE Decimal(n)

\* ts // 60 and ts % 60 for ts = cs / 100 seconds, then int()
FloorDiv60(cs) == cs \div 6000
Mod60(cs) == (cs % 6000) \div 100

\* f"{int(ts // 60):02d}:{int(ts % 60):02d}"
TimeOf(cs) == Fmt02d(FloorDiv60(cs)) \o <<":">> \o Fmt02d(Mod60(cs))

Marker(seg) == [time |-> TimeOf(seg.start), label |-> LabelOf(seg.text)]

\* util.cos_sim(a, b).item() of the embedding model's vectors, in hundredths
CosSim(a, b) ==
    IF a = b THEN 100
    ELSE LET p == {a, b} IN
         CASE p = {1, 2} -> 90
           [] p = {1, 3} -> 65
           [] p = {2, 3} -> 30
           [] p = {1, 4} -> 64
           [] p = {2, 4} -> 66
           [] OTHER      -> 64

\* sim < SIMILARITY_THRESHOLD
IsChangeLe(sim) == sim <= SIMILARITY_THRESHOLD
IsChange(sim) == sim < SIMILARITY_THRESHOLD

\* range(len(embeddings)) starts at 0
RangeStartOne == 0 + 1
RangeStart == 0

\* Inputs: n consecutive start times (hundredths of a second, chronological)
\* and n consecutive texts, both windows placed by one offset
StartSeq == <<0, 50, 999, 1200, 4000, 5999, 6000, 59940, 359999, 360000,
              599999, 600000, 725050, 6000000>>

TextSeq == <<
    <<"I","n","t","r","o"," ","t","o"," ","l","o","o","p","s",".">>,
    <<" ","S","t","i","l","l"," ","o","n",".">>,
    <<>>,
    <<" ">>,
    <<" ","a">>,
    <<"a"," ",".","b">>,
    <<".","a">>,
    <<" ",".","a"," ">>,
    <<"a","\n">>,
    Rep("a", LabelMax - 1),
    Rep("a", LabelMax),
    Rep("a", LabelMax + 1),
    <<" ">> \o Rep("a", LabelMax + 1) \o <<" ">>,
    Rep("a", LabelMax + 2) \o <<".","b">>,
    Rep("a", 3) \o <<".">> \o Rep("b", LabelMax + 5),
    <<" "," ">> \o Rep("b", LabelMax) \o <<"."," ","c">>
>>

Embeds == 1..4

TextAt(j) == TextSeq[((j - 1) % Len(TextSeq)) + 1]

TsInit ==
    \E n \in 0..MaxSegs, t0 \in 1..Len(TextSeq) :
       LET s0 == ((t0 - 1) % (Len(StartSeq) - n + 1)) + 1 IN
        /\ segments = [j \in 1..n |-> [start |-> StartSeq[s0 + j - 1], text |-> TextAt(t0 + j - 1)]]
        /\ embeddings \in [1..n -> Embeds]
        /\ i = RangeStart
        /\ timestamps = <<>>
        /\ srcIdx = <<>>

\* lines 31-35: the first iteration appends the marker of segment 0
TsFirst ==
    /\ i < Len(embeddings)
    /\ i = 0
    /\ timestamps' = Append(timestamps, Marker(segments[i + 1]))
    /\ srcIdx' = Append(srcIdx, i)
    /\ i' = i + 1
    /\ UNCHANGED <<segments, embeddings>>

\* lines 36-44, sim < SIMILARITY_THRESHOLD: the marker of segment i is appended
TsChange ==
    /\ i < Len(embeddings)
    /\ i # 0
    /\ IsChange(CosSim(embeddings[i + 1], embeddings[i]))
    /\ timestamps' = Append(timestamps, Marker(segments[i + 1]))
    /\ srcIdx' = Append(srcIdx, i)
    /\ i' = i + 1
    /\ UNCHANGED <<segments, embeddings>>

\* lines 36-38, sim >= SIMILARITY_THRESHOLD: nothing is appended
TsSame ==
    /\ i < Len(embeddings)
    /\ i # 0
    /\ ~IsChange(CosSim(embeddings[i + 1], embeddings[i]))
    /\ i' = i + 1
    /\ UNCHANGED <<segments, embeddings, timestamps, srcIdx>>

TsDone == i >= Len(embeddings)

TsIdle ==
    /\ segments = <<>>
    /\ embeddings = <<>>
    /\ i = 0
    /\ timestamps = <<>>
    /\ srcIdx = <<>>

CtIdle ==
    /\ ctInput = <<>>
    /\ text = <<>>
    /\ k = 0
    /\ ctPc = "idle"

VidIdle ==
    /\ pc = "idle"
    /\ video = <<>>
    /\ fileExists = FALSE
    /\ audio_file = "None"
    /\ transcription = NoneVal
    /\ summary = NoneVal
    /\ result = [returned |-> "not yet"]
    /\ calls = <<>>
    /\ raised = {}
    /\ console = <<>>
    /\ modelCalls = <<>>

InitTimestamps == TsInit /\ CtIdle /\ VidIdle
NextTimestamps ==
    \/ TsFirst /\ UNCHANGED <<ctVars, vidVars>>
    \/ TsChange /\ UNCHANGED <<ctVars, vidVars>>
    \/ TsSame /\ UNCHANGED <<ctVars, vidVars>>
SpecTimestamps == InitTimestamps /\ [][NextTimestamps]_vars

-----------------------------------------------------------------------------
(* main.py: _correct_transcript                                            *)

\* position p of s holds a \w character
WordAt(s, p) == p >= 1 /\ p <= Len(s) /\ IsWord(s[p])

\* \b between s[p-1] and s[p]
Boundary(s, p) == WordAt(s, p - 1) # WordAt(s, p)

\* where a greedy \w+ (\s+) that starts at p ends, exclusive; p when it matches nothing
RECURSIVE WordEnd(_, _)
WordEnd(s, p) == IF WordAt(s, p) THEN WordEnd(s, p + 1) ELSE p
RECURSIVE SpaceEnd(_, _)
SpaceEnd(s, p) == IF p >= 1 /\ p <= Len(s) /\ IsSpace(s[p]) THEN SpaceEnd(s, p + 1) ELSE p

\* the literal lit at position p; ic: re.IGNORECASE
LitAt(s, p, lit, ic) ==
    /\ p >= 1
    /\ p + Len(lit) - 1 <= Len(s)
    /\ \A j \in DOMAIN lit :
          IF ic THEN LowerOf(s[p + j - 1]) = LowerOf(lit[j]) ELSE s[p + j - 1] = lit[j]

CharAt(s, p, c) == p >= 1 /\ p <= Len(s) /\ s[p] = c

\* the entries of correction_patterns, in the order the dict literal lists them
Literal(pat, repl) == [kind |-> "literal", pat |-> pat, repl |-> repl]
PatPiton == Literal(<<"P","I","T","O","N">>,
    <<"P","y","t","h","o","n">>)
PatPythen == Literal(<<"P","Y","T","H","E","N">>,
    <<"P","y","t","h","o","n">>)
PatPieCharm == Literal(<<"P","I","E"," ","C","H","A","R","M">>,
    <<"P","y","C","h","a","r","m">>)
PatGugal == Literal(<<"G","U","G","A","L">>,
    <<"G","o","o","g","l","e">>)
PatVerables == Literal(<<"V","E","R","A","B","L","E","S">>,
    <<"v","a","r","i","a","b","l","e","s">>)
PatCoteEditor == Literal(<<"C","O","T","E"," ","E","D","I","T","O","R">>,
    <<"c","o","d","e"," ","e","d","i","t","o","r">>)
PatShongyuhaivin == Literal(<<"S","H","O","N","G","Y","U","H","A","I","V","I","N">>,
    <<"s","h","o","w","i","n","g"," ","y","o","u"," ","h","o","w"," ","t","o">>)
PatCaSensitive == Literal(<<"C","A"," ","S","E","N","S","I","T","I","V","E">>,
    <<"c","a","s","e"," ","s","e","n","s","i","t","i","v","e">>)
PatOpenSauce == Literal(<<"O","P","E","N"," ","S","A","U","C","E">>,
    <<"o","p","e","n"," ","s","o","u","r","c","e">>)
PatPhrase == [kind |-> "phrase", pat |-> <<>>, repl |-> <<>>]
PatDup == [kind |-> "dup", pat |-> <<>>, repl |-> <<>>]
\* lines 82 and 83
PatSpacePunct == [kind |-> "spacePunct", pat |-> <<>>, repl |-> <<>>]
PatPunctWord == [kind |-> "punctWord", pat |-> <<>>, repl |-> <<>>]
\* line 121: the duplicate-word pattern without re.IGNORECASE
PatDupExact == [kind |-> "dupExact", pat |-> <<>>, repl |-> <<>>]

Sentinels == <<<<"O","U","T">>, <<"E","D","I","A","T","E","L","Y">>>>

\* The end (exclusive) of the match of pattern q that starts at position p of s,
\* 0 when there is none.  Every quantifier is greedy and no shorter choice can
\* match: a \w+ is followed by a space, a \s+ by a non-space.
MatchEnd(q, s, p) ==
    CASE q.kind = "literal" ->
            \* \bLITERAL\b
            IF /\ Boundary(s, p)
               /\ LitAt(s, p, q.pat, TRUE)
               /\ Boundary(s, p + Len(q.pat))
            THEN p + Len(q.pat) ELSE 0
      [] q.kind = "phrase" ->
            \* \b(\w+) (\w+) (?:OUT|EDIATELY)\b
            LET e1 == WordEnd(s, p)
                e2 == WordEnd(s, e1 + 1)
                hit == {j \in DOMAIN Sentinels :
                           /\ LitAt(s, e2 + 1, Sentinels[j], TRUE)
                           /\ Boundary(s, e2 + 1 + Len(Sentinels[j]))}
            IN  IF /\ Boundary(s, p)
                   /\ e1 > p
                   /\ CharAt(s, e1, " ")
                   /\ e2 > e1 + 1
                   /\ CharAt(s, e2, " ")
                   /\ hit # {}
                THEN e2 + 1 + Len(Sentinels[CHOOSE j \in hit : \A h \in hit : j <= h])
                ELSE 0
      [] q.kind \in {"dup", "dupExact"} ->
            \* \b(\w+)\s+\1\b
            LET e1 == WordEnd(s, p)
                e2 == SpaceEnd(s, e1)
                g  == SubSeq(s, p, e1 - 1)
            IN  IF /\ Boundary(s, p)
                   /\ e1 > p
                   /\ e2 > e1
                   /\ LitAt(s, e2, g, q.kind = "dup")
                   /\ Boundary(s, e2 + Len(g))
                THEN e2 + Len(g) ELSE 0
      [] q.kind = "spacePunct" ->
            \* \s+([.,!?])
            LET e == SpaceEnd(s, p)
            IN  IF e > p /\ e <= Len(s) /\ IsPunct(s[e]) THEN e + 1 ELSE 0
      [] q.kind = "punctWord" ->
            \* ([.,!?])(\w)
            IF IsPunct(s[p]) /\ WordAt(s, p + 1) THEN p + 2 ELSE 0

\* what the match of q on s[p .. e-1] is replaced by
Replacement(q, s, p, e) ==
    CASE q.kind = "literal" -> q.repl
      [] q.kind = "phrase" ->
            \* \1 \2
            LET e1 == WordEnd(s, p)
                e2 == WordEnd(s, e1 + 1)
            IN  SubSeq(s, p, e1 - 1) \o <<" ">> \o SubSeq(s, e1 + 1, e2 - 1)
      [] q.kind \in {"dup", "dupExact"} -> SubSeq(s, p, WordEnd(s, p) - 1)
      [] q.kind = "spacePunct" -> <<s[e - 1]>>
      [] q.kind = "punctWord" -> <<s[p], " ", s[p + 1]>>

\* re.sub(q, replacement, s): the leftmost match at or after p is replaced, what
\* lies before it is kept, and the search goes on where that match ended; every
\* match is found in s itself
RECURSIVE SubFrom(_, _, _)
SubFrom(q, s, p) ==
    LET starts == {h \in p..Len(s) : MatchEnd(q, s, h) > 0}
    IN  IF starts = {} THEN SubSeq(s, p, Len(s))
        ELSE LET m == Least(starts)
                 e == MatchEnd(q, s, m)
             IN  SubSeq(s, p, m - 1) \o Replacement(q, s, m, e) \o SubFrom(q, s, e)
ReSub(q, s) == SubFrom(q, s, 1)

CorrectionPatternsDupFirst ==
    <<PatDup, PatPhrase, PatPiton, PatPythen, PatPieCharm, PatGugal, PatVerables,
      PatCoteEditor, PatShongyuhaivin, PatCaSensitive, PatOpenSauce>>
CorrectionPatterns ==
    <<PatPiton, PatPythen, PatPieCharm, PatGugal, PatVerables, PatCoteEditor,
      PatShongyuhaivin, PatCaSensitive, PatOpenSauce, PatPhrase, PatDup>>

\* lines 82-83
FixPunctuation(s) == ReSub(PatPunctWord, ReSub(PatSpacePunct, s))

\* re.split(r'(?<=[.!?])\s+', s): the parts between the whitespace runs that
\* follow a '.', '!' or '?'
RECURSIVE SplitSentencesFrom(_, _)
SplitSentencesFrom(s, p) ==
    LET seps == {h \in p..Len(s) : h > 1 /\ s[h - 1] \in {".", "!", "?"} /\ IsSpace(s[h])}
    IN  IF seps = {} THEN <<SubSeq(s, p, Len(s))>>
        ELSE LET m == Least(seps)
             IN  <<SubSeq(s, p, m - 1)>> \o SplitSentencesFrom(s, SpaceEnd(s, m))
SplitSentences(s) == SplitSentencesFrom(s, 1)

\* sentence[0].upper() + sentence[1:] if sentence else ""
CapitalizeFirst(x) == IF x = <<>> THEN <<>> ELSE <<UpperOf(x[1])>> \o Tail(x)

\* ' '.join(parts)
RECURSIVE JoinSpace(_)
JoinSpace(parts) ==
    IF parts = <<>> THEN <<>>
    ELSE IF Len(parts) = 1 THEN parts[1]
    ELSE parts[1] \o <<" ">> \o JoinSpace(Tail(parts))

\* lines 86-90
CapitalizeSentences(s) ==
    LET sentences == SplitSentences(s)
    IN  JoinSpace([j \in DOMAIN sentences |-> CapitalizeFirst(sentences[j])])

\* lines 78-79: the loop over correction_patterns.items(), from entry j on
RECURSIVE ApplyFrom(_, _)
ApplyFrom(j, s) ==
    IF j > Len(CorrectionPatterns) THEN s
    ELSE ApplyFrom(j + 1, ReSub(CorrectionPatterns[j], s))

\* _correct_transcript(text)
CorrectTranscript(s) == CapitalizeSentences(FixPunctuation(ApplyFrom(1, s)))

\* Inputs of _correct_transcript: chosen transcripts, and every text of up to
\* MaxWords words of CtWords joined by separators of CtSeps
MaxWords == 3
CtWords == {<<"P","I","T","O","N">>, <<"p","y","t","h","e","n">>, <<"t","h","e">>}
CtSeps == {<<" ">>, <<" ","\n">>, <<"."," ">>}
RECURSIVE WordTexts(_)
WordTexts(n) ==
    IF n = 0 THEN {<<>>}
    ELSE IF n = 1 THEN CtWords
    ELSE {t \o sep \o w : t \in WordTexts(n - 1), sep \in CtSeps, w \in CtWords}
CtChosen == {
    <<>>,
    <<"P","I","T","O","N"," ","P","Y","T","H","E","N">>,
    <<"P","I","E"," ","C","H","A","R","M">>,
    <<"g","u","g","a","l"," ","i","t">>,
    <<"V","E","R","A","B","L","E","S">>,
    <<"C","O","T","E"," ","E","D","I","T","O","R">>,
    <<"S","H","O","N","G","Y","U","H","A","I","V","I","N">>,
    <<"C","A"," ","S","E","N","S","I","T","I","V","E">>,
    <<"O","P","E","N"," ","S","A","U","C","E">>,
    <<"g","o"," ","b","a","c","k"," ","O","U","T">>,
    <<"d","o"," ","i","t"," ","i","m","m"," ","E","D","I","A","T","E","L","Y"," ","n","o","w">>,
    <<"a"," ","b"," ","c"," ","o","u","t">>,
    <<"P","I","T","O","N","S">>,
    <<"a"," ",",","b">>,
    <<"u","s","e"," ","p","i","t","o","n",".","i","t"," ","w","o","r","k","s">>,
    <<"i","s"," ","i","s","."," ","i","t"," ","i","t","!"," "," ","o","k"," ","?">>,
    <<"x"," ","x"," ","x"," ","x">>,
    <<"T","h","e"," ","t","h","e"," ","T","H","E">>,
    <<" ","h","i","."," ">>,
    <<"p","i","e"," ","p","i","e"," ","c","h","a","r","m">>,
    <<"o","n","e"," ","t","w","o"," ","o","u","t"," ","o","u","t">>,
    <<"s","o"," ",","," ","y","e","s",".","n","o">>,
    <<"H","e","l","l","o","\n","h","e","l","l","o"," ","t","h","e","r","e">>,
    <<"s","t","o","p","."," "," ","g","o">>
}
CtInputs == CtChosen \cup UNION {WordTexts(n) : n \in 0..MaxWords}

CtInit ==
    /\ ctInput \in CtInputs
    /\ text = ctInput
    /\ k = 1
    /\ ctPc = "patterns"

\* lines 78-79, one iteration: text = re.sub(pattern, replacement, text, flags=re.IGNORECASE)
CtApply ==
    /\ ctPc = "patterns"
    /\ k <= Len(CorrectionPatterns)
    /\ text' = ReSub(CorrectionPatterns[k], text)
    /\ k' = k + 1
    /\ ctPc' = IF k = Len(CorrectionPatterns) THEN "punct" ELSE "patterns"
    /\ UNCHANGED ctInput

\* lines 82-83
CtPunct ==
    /\ ctPc = "punct"
    /\ text' = FixPunctuation(text)
    /\ ctPc' = "capitalize"
    /\ UNCHANGED <<ctInput, k>>

\* lines 86-90: text stands for the returned string
CtCapitalize ==
    /\ ctPc = "capitalize"
    /\ text' = CapitalizeSentences(text)
    /\ ctPc' = "done"
    /\ UNCHANGED <<ctInput, k>>

InitCorrect == CtInit /\ TsIdle /\ VidIdle
NextCorrect ==
    \/ CtApply /\ UNCHANGED <<tsVars, vidVars>>
    \/ CtPunct /\ UNCHANGED <<tsVars, vidVars>>
    \/ CtCapitalize /\ UNCHANGED <<tsVars, vidVars>>
SpecCorrect == InitCorrect /\ [][NextCorrect]_vars

-----------------------------------------------------------------------------
(* main.py: summarize_text                                                 *)

\* Python truthiness of a text or None: "not t" is the negation
Truthy(t) == t # NoneVal /\ t # <<>>

\* len(t.split()): the maximal runs of non-whitespace characters
WordCount(t) == Cardinality({p \in DOMAIN t : ~IsSpace(t[p]) /\ (p = 1 \/ IsSpace(t[p - 1]))})

\* line 94: texts of fewer words are returned as they are
MinWords == 50

\* line 100: min(130, max(50, word_count // 4))
MaxLenUnclamped(w) == Min(130, w \div 4)
MaxLenOf(w) == Min(130, Max(50, w \div 4))

\* line 101: min(30, max_len // 2)
MinLenOf(maxLen) == Min(30, maxLen \div 2)

\* str.capitalize(): the first character upper-cased, the others lower-cased
Capitalize(s) == [j \in DOMAIN s |-> IF j = 1 THEN UpperOf(s[j]) ELSE LowerOf(s[j])]

\* _clean_summary(summary)
CleanSummary(s) == Capitalize(ReSub(PatDupExact, s))

\* [s for s in sentences if len(s.split()) > 5]
RECURSIVE KeySentences(_)
KeySentences(parts) ==
    IF parts = <<>> THEN <<>>
    ELSE IF WordCount(Head(parts)) > 5 THEN <<Head(parts)>> \o KeySentences(Tail(parts))
    ELSE KeySentences(Tail(parts))

\* _fallback_summary(text)
FallbackSummary(t) == JoinSpace(Take(KeySentences(SplitSentences(t)), 3))

\* what the summarization model may write
SummaryOutputs == {
    <<"t","h","e"," ","t","h","e"," ","c","a","t"," ","S","a","t",".">>,
    <<"p","y","t","h","o","n"," ","i","s"," ","i","s"," ","f","u","n">>
}

\* line 94-95: nothing to summarize
SumReturnText(t) ==
    /\ ~Truthy(t) \/ WordCount(t) < MinWords
    /\ summary' = t
    /\ UNCHANGED <<modelCalls, console, raised>>

\* lines 97-113: the model answers
SumModelOk(t) ==
    /\ ~(~Truthy(t) \/ WordCount(t) < MinWords)
    /\ \E o \in SummaryOutputs : summary' = CleanSummary(o)
    /\ modelCalls' = Append(modelCalls,
          [max_length |-> MaxLenOf(WordCount(t)),
           min_length |-> MinLenOf(MaxLenOf(WordCount(t))),
           words |-> WordCount(t)])
    /\ UNCHANGED <<console, raised>>

\* lines 97-110, 114-116: the model raises
SumModelFail(t) ==
    /\ ~(~Truthy(t) \/ WordCount(t) < MinWords)
    /\ summary' = FallbackSummary(t)
    /\ modelCalls' = Append(modelCalls,
          [max_length |-> MaxLenOf(WordCount(t)),
           min_length |-> MinLenOf(MaxLenOf(WordCount(t))),
           words |-> WordCount(t)])
    /\ console' = Append(console, "Summarization failed")
    /\ raised' = raised \cup {"summarize"}

\* Inputs of summarize_text: None, and texts of 0..MaxWordCount words
MaxWordCount == 540
WordsText(w) == [j \in 1..(IF w = 0 THEN 0 ELSE 3 * w - 1) |->
                    IF j % 3 = 1 THEN "a" ELSE IF j % 3 = 2 THEN "b" ELSE " "]
SumInputs == {NoneVal, <<" ", "\n">>} \cup {WordsText(w) : w \in 0..MaxWordCount}

NotReturned == [returned |-> "not yet"]
ReturnedNone == [returned |-> "None"]

\* summarize_text(text) called on its own; transcription holds the argument
SumInit ==
    /\ pc = "summarize_text"
    /\ transcription \in SumInputs
    /\ video = <<>>
    /\ fileExists = FALSE
    /\ audio_file = "None"
    /\ summary = NoneVal
    /\ result = NotReturned
    /\ calls = <<>>
    /\ raised = {}
    /\ console = <<>>
    /\ modelCalls = <<>>

SumCall(body) ==
    /\ pc = "summarize_text"
    /\ body
    /\ pc' = "returned"
    /\ calls' = Append(calls, "summarize")
    /\ UNCHANGED <<video, fileExists, audio_file, transcription, result>>

InitSummarize == SumInit /\ TsIdle /\ CtIdle
NextSummarize ==
    \/ SumCall(SumReturnText(transcription)) /\ UNCHANGED <<tsVars, ctVars>>
    \/ SumCall(SumModelOk(transcription)) /\ UNCHANGED <<tsVars, ctVars>>
    \/ SumCall(SumModelFail(transcription)) /\ UNCHANGED <<tsVars, ctVars>>
SpecSummarize == InitSummarize /\ [][NextSummarize]_vars

-----------------------------------------------------------------------------
(* main.py: summarize_video                                                *)

TempAudio == "temp_audio.wav"

\* line 137: "if not audio_file" is false
ExtractionOkAlways(a) == TRUE
ExtractionOk(a) == a # "None"

\* line 144: "if not transcription" is false
TranscriptOkAlways(t) == TRUE
TranscriptOk(t) == Truthy(t)

\* What the audio track of the input video says: some short transcripts, and
\* talks of n sentences (six words each once corrected)
Sentence == <<"w","e"," ","u","s","e"," ","t","h","e"," ","t","h","e"," ","P","I","T","O","N"," ","e","d","i","t","o","r"," ","t","o","d","a","y",".">>
RECURSIVE Talk(_)
Talk(n) == IF n = 0 THEN <<>> ELSE IF n = 1 THEN Sentence ELSE Talk(n - 1) \o <<" ">> \o Sentence
Speeches == {
    <<>>,
    <<" ">>,
    <<"P","I","T","O","N"," ","P","Y","T","H","E","N">>,
    <<"i","s"," ","i","s","."," ","i","t"," ","i","t","!"," "," ","o","k"," ","?">>,
    <<"t","h","e"," ","t","h","e"," ","t","h","e"," ","e","n","d">>,
    <<"u","s","e"," ","P","I","E"," ","C","H","A","R","M"," ",",","o","k">>,
    <<"g","o"," ","b","a","c","k"," ","O","U","T",".","n","o","w">>,
    Talk(1), Talk(2), Talk(8), Talk(9), Talk(10)
}

VidInit ==
    /\ pc = "extract"
    /\ video \in Speeches
    /\ fileExists = FALSE
    /\ audio_file = "None"
    /\ transcription = NoneVal
    /\ summary = NoneVal
    /\ result = NotReturned
    /\ calls = <<>>
    /\ raised = {}
    /\ console = <<>>
    /\ modelCalls = <<>>

\* line 136, extract_audio returns the path: temp_audio.wav has been written
VidExtractOk ==
    /\ pc = "extract"
    /\ calls' = Append(calls, "extract")
    /\ fileExists' = TRUE
    /\ audio_file' = TempAudio
    /\ pc' = "extracted"
    /\ UNCHANGED <<video, transcription, summary, result, raised, console, modelCalls>>

\* line 136, extract_audio raises before write_audiofile creates the file
\* (VideoFileClip fails, the video has no audio track)
VidExtractFailBeforeWrite ==
    /\ pc = "extract"
    /\ calls' = Append(calls, "extract")
    /\ raised' = raised \cup {"extract"}
    /\ console' = Append(console, "Audio extraction failed")
    /\ audio_file' = "None"
    /\ pc' = "extracted"
    /\ UNCHANGED <<video, fileExists, transcription, summary, result, modelCalls>>

\* line 136, write_audiofile raises after it has created temp_audio.wav
VidExtractFailWriting ==
    /\ pc = "extract"
    /\ calls' = Append(calls, "extract")
    /\ raised' = raised \cup {"extract"}
    /\ console' = Append(console, "Audio extraction failed")
    /\ fileExists' = TRUE
    /\ audio_file' = "None"
    /\ pc' = "extracted"
    /\ UNCHANGED <<video, transcription, summary, result, modelCalls>>

\* lines 137-138
VidNoAudio ==
    /\ pc = "extracted"
    /\ ~ExtractionOk(audio_file)
    /\ result' = ReturnedNone
    /\ pc' = "done"
    /\ UNCHANGED <<video, fileExists, audio_file, transcription, summary, calls, raised,
                   console, modelCalls>>

\* line 141, transcribe_audio returns the corrected transcript
VidTranscribeOk ==
    /\ pc = "extracted"
    /\ ExtractionOk(audio_file)
    /\ audio_file = TempAudio /\ fileExists
    /\ calls' = Append(calls, "transcribe")
    /\ transcription' = CorrectTranscript(video)
    /\ pc' = "remove"
    /\ UNCHANGED <<video, fileExists, audio_file, summary, result, raised, console, modelCalls>>

\* line 141, the speech recognizer raises: transcribe_audio returns None
VidTranscribeFail ==
    /\ pc = "extracted"
    /\ ExtractionOk(audio_file)
    /\ calls' = Append(calls, "transcribe")
    /\ raised' = raised \cup {"transcribe"}
    /\ console' = Append(console, "Transcription failed")
    /\ transcription' = NoneVal
    /\ pc' = "remove"
    /\ UNCHANGED <<video, fileExists, audio_file, summary, result, modelCalls>>

\* line 142: os.remove(audio_file); it raises, and summarize_video with it,
\* when there is no such file
VidRemove ==
    /\ pc = "remove"
    /\ IF audio_file = TempAudio /\ fileExists
       THEN /\ fileExists' = FALSE
            /\ pc' = "transcribed"
            /\ UNCHANGED result
       ELSE /\ result' = [returned |-> "exception"]
            /\ pc' = "done"
            /\ UNCHANGED fileExists
    /\ UNCHANGED <<video, audio_file, transcription, summary, calls, raised, console, modelCalls>>

\* lines 144-145
VidNoTranscript ==
    /\ pc = "transcribed"
    /\ ~TranscriptOk(transcription)
    /\ result' = ReturnedNone
    /\ pc' = "done"
    /\ UNCHANGED <<video, fileExists, audio_file, transcription, summary, calls, raised,
                   console, modelCalls>>

\* lines 148-153: summarize_text(transcription), then the result dict
VidSummarize(body) ==
    /\ pc = "transcribed"
    /\ TranscriptOk(transcription)
    /\ body
    /\ calls' = Append(calls, "summarize")
    /\ result' = [returned |-> "dict", transcription |-> transcription, summary |-> summary']
    /\ pc' = "done"
    /\ UNCHANGED <<video, fileExists, audio_file, transcription>>

InitVideo == VidInit /\ TsIdle /\ CtIdle
NextVideo ==
    \/ VidExtractOk /\ UNCHANGED <<tsVars, ctVars>>
    \/ VidExtractFailBeforeWrite /\ UNCHANGED <<tsVars, ctVars>>
    \/ VidExtractFailWriting /\ UNCHANGED <<tsVars, ctVars>>
    \/ VidNoAudio /\ UNCHANGED <<tsVars, ctVars>>
    \/ VidTranscribeOk /\ UNCHANGED <<tsVars, ctVars>>
    \/ VidTranscribeFail /\ UNCHANGED <<tsVars, ctVars>>
    \/ VidRemove /\ UNCHANGED <<tsVars, ctVars>>
    \/ VidNoTranscript /\ UNCHANGED <<tsVars, ctVars>>
    \/ VidSummarize(SumReturnText(transcription)) /\ UNCHANGED <<tsVars, ctVars>>
    \/ VidSummarize(SumModelOk(transcription)) /\ UNCHANGED <<tsVars, ctVars>>
    \/ VidSummarize(SumModelFail(transcription)) /\ UNCHANGED <<tsVars, ctVars>>
SpecVideo == InitVideo /\ [][NextVideo]_vars

-----------------------------------------------------------------------------
(* Properties of the detection loop                                        *)

NumSegments == Len(segments)
SegmentOf(m) == segments[srcIdx[m] + 1]

\* C1: when the loop has ended on N >= 1 segments, the number of markers is
\* between 1 and N (exactly 1 for N = 1) and the first marker is the one built
\* from segment 0; while the loop runs, no more markers than segments visited.
C1_MarkerCount ==
    /\ Len(timestamps) <= i
    /\ Len(srcIdx) = Len(timestamps)
    /\ (TsDone /\ NumSegments >= 1) =>
          /\ Len(timestamps) >= 1
          /\ Len(timestamps) <= NumSegments
          /\ srcIdx[1] = 0
          /\ timestamps[1] = Marker(segments[1])
          /\ (NumSegments = 1 => Len(timestamps) = 1)

C1_Witness ==
    /\ TsDone
    /\ NumSegments >= 2
    /\ Len(timestamps) = 1
    /\ srcIdx = <<0>>

\* the 0-based indices that are to get a marker
ChangeIndices ==
    {0} \cup {j \in 1..(NumSegments - 1) :
                CosSim(embeddings[j + 1], embeddings[j]) < SIMILARITY_THRESHOLD}

\* C2: when the loop has ended, the markers are, in increasing index order,
\* the one of segment 0 and those of exactly the segments whose similarity to
\* their immediate predecessor is strictly below the threshold.
C2_ExactMarkers ==
    (TsDone /\ NumSegments >= 1) =>
        /\ {srcIdx[m] : m \in DOMAIN srcIdx} = ChangeIndices
        /\ \A m \in 1..(Len(srcIdx) - 1) : srcIdx[m] < srcIdx[m + 1]
        /\ Len(timestamps) = Len(srcIdx)
        /\ \A m \in DOMAIN timestamps : timestamps[m] = Marker(SegmentOf(m))

\* segment 1 is exactly at the threshold (no marker), segment 2 just below it
C2_Witness ==
    /\ TsDone
    /\ NumSegments = 3
    /\ CosSim(embeddings[2], embeddings[1]) = SIMILARITY_THRESHOLD
    /\ CosSim(embeddings[3], embeddings[2]) < SIMILARITY_THRESHOLD
    /\ CosSim(embeddings[3], embeddings[1]) >= SIMILARITY_THRESHOLD
    /\ srcIdx = <<0, 2>>

\* the part of s before its first '.', all of s when it has none
FirstDot(s) ==
    IF \E j \in DOMAIN s : s[j] = "."
    THEN CHOOSE j \in DOMAIN s : s[j] = "." /\ \A h \in 1..(j - 1) : s[h] # "."
    ELSE Len(s) + 1
FirstSentence(s) == SubSeq(s, 1, FirstDot(s) - 1)

\* s without its leading and trailing whitespace
NonSpace(s) == {j \in DOMAIN s : ~IsSpace(s[j])}
Trimmed(s) ==
    IF NonSpace(s) = {} THEN <<>>
    ELSE SubSeq(s, CHOOSE j \in NonSpace(s) : \A h \in NonSpace(s) : j <= h,
                   CHOOSE j \in NonSpace(s) : \A h \in NonSpace(s) : j >= h)

AtMost60(s) == SubSeq(s, 1, IF Len(s) > LabelMax THEN LabelMax ELSE Len(s))

\* C3 as stated: every label is the first sentence of the segment's text, cut
\* to at most 60 characters, followed by "...".
C3_LabelOfRawText ==
    \A m \in DOMAIN timestamps :
        timestamps[m].label = AtMost60(FirstSentence(SegmentOf(m).text)) \o <<".", ".", ".">>

\* C3 (amended): every label is the first sentence of the segment's text with
\* its leading and trailing whitespace removed, cut to at most 60 characters,
\* followed by "..."; an empty text gives "...".
C3_LabelOfTrimmedText ==
    \A m \in DOMAIN timestamps :
        LET label == timestamps[m].label
            body  == FirstSentence(Trimmed(SegmentOf(m).text))
        IN  /\ label = AtMost60(body) \o <<".", ".", ".">>
            /\ Len(label) <= LabelMax + 3
            /\ (Len(body) > LabelMax => Len(label) = LabelMax + 3)
            /\ (SegmentOf(m).text = <<>> => label = <<".", ".", ".">>)

\* a later segment whose text starts with whitespace and whose first sentence
\* is longer than 60 characters
C3_Witness ==
    \E m \in DOMAIN timestamps :
        /\ srcIdx[m] > 0
        /\ SegmentOf(m).text # <<>>
        /\ IsSpace(SegmentOf(m).text[1])
        /\ Len(FirstSentence(Trimmed(SegmentOf(m).text))) > LabelMax
        /\ timestamps[m].label = Rep("a", LabelMax) \o <<".", ".", ".">>

DigitValue(c) == (CHOOSE d \in DOMAIN Digit : Digit[d] = c) - 1
AllDigits(s) == \A j \in DOMAIN s : \E d \in DOMAIN Digit : Digit[d] = s[j]
RECURSIVE NumValue(_)
NumValue(s) == IF s = <<>> THEN 0 ELSE 10 * NumValue(SubSeq(s, 1, Len(s) - 1)) + DigitValue(s[Len(s)])

\* C4 as stated: every time is two digits, a colon, two digits, the minutes
\* being floor(s / 60) and the seconds floor(s mod 60), in 00..59.
C4_TimeIsMMSS ==
    \A m \in DOMAIN timestamps :
        LET t  == timestamps[m].time
            cs == SegmentOf(m).start
        IN  /\ Len(t) = 5
            /\ t[3] = ":"
            /\ AllDigits(SubSeq(t, 1, 2)) /\ AllDigits(SubSeq(t, 4, 5))
            /\ NumValue(SubSeq(t, 1, 2)) * 6000 <= cs
            /\ cs < (NumValue(SubSeq(t, 1, 2)) + 1) * 6000
            /\ NumValue(SubSeq(t, 4, 5)) * 100 <= cs - NumValue(SubSeq(t, 1, 2)) * 6000
            /\ cs - NumValue(SubSeq(t, 1, 2)) * 6000 < (NumValue(SubSeq(t, 4, 5)) + 1) * 100
            /\ NumValue(SubSeq(t, 4, 5)) <= 59

\* C4 (amended): every time is a minutes field of at least two digits (exactly
\* two below 100 minutes, the plain decimal number from 100 minutes on), a
\* colon, and a two-digit seconds field in 00..59; the minutes are
\* floor(s / 60) and the seconds floor(s mod 60).
C4_TimeFormat ==
    \A m \in DOMAIN timestamps :
        LET t    == timestamps[m].time
            cs   == SegmentOf(m).start
            mins == SubSeq(t, 1, Len(t) - 3)
            secs == SubSeq(t, Len(t) - 1, Len(t))
        IN  /\ Len(t) >= 5
            /\ t[Len(t) - 2] = ":"
            /\ AllDigits(mins) /\ AllDigits(secs)
            /\ NumValue(mins) * 6000 <= cs
            /\ cs < (NumValue(mins) + 1) * 6000
            /\ NumValue(secs) * 100 <= cs - NumValue(mins) * 6000
            /\ cs - NumValue(mins) * 6000 < (NumValue(secs) + 1) * 100
            /\ NumValue(secs) <= 59
            /\ (NumValue(mins) < 100 <=> Len(mins) = 2)
            /\ (Len(mins) > 2 => mins[1] # "0")

\* a later segment that starts at 100 minutes or more
C4_Witness ==
    \E m \in DOMAIN timestamps :
        /\ srcIdx[m] > 0
        /\ SegmentOf(m).start = 600000
        /\ timestamps[m].time = <<"1", "0", "0", ":", "0", "0">>

\* a segment below ten minutes with a fractional start: both fields are padded
C4_WitnessPadded ==
    \E m \in DOMAIN timestamps :
        /\ SegmentOf(m).start = 5999
        /\ timestamps[m].time = <<"0", "0", ":", "5", "9">>

-----------------------------------------------------------------------------
(* Properties of _correct_transcript                                       *)

\* the eleven substitutions composed in the order the dict literal lists them
TyposCorrected(s) ==
    ReSub(PatOpenSauce, ReSub(PatCaSensitive, ReSub(PatShongyuhaivin,
    ReSub(PatCoteEditor, ReSub(PatVerables, ReSub(PatGugal,
    ReSub(PatPieCharm, ReSub(PatPythen, ReSub(PatPiton, s)))))))))
ListedOrder(s) == ReSub(PatDup, ReSub(PatPhrase, TyposCorrected(s)))

\* C8: the returned text is the sequential composition of the nine typo
\* corrections in listed order, the OUT/EDIATELY stripping, the duplicate-word
\* collapsing, the punctuation fixes and the capitalization, each applied to
\* the output of the one before; "PITON PYTHEN" comes out as "Python".
C8_OrderedApplication ==
    /\ (ctPc = "patterns" /\ k = 3) => text = ReSub(PatPythen, ReSub(PatPiton, ctInput))
    /\ (ctPc = "patterns" /\ k = 10) => text = TyposCorrected(ctInput)
    /\ (ctPc = "patterns" /\ k = 11) => text = ReSub(PatPhrase, TyposCorrected(ctInput))
    /\ ctPc = "punct" => text = ListedOrder(ctInput)
    /\ ctPc = "capitalize" =>
          text = ReSub(PatPunctWord, ReSub(PatSpacePunct, ListedOrder(ctInput)))
    /\ ctPc = "done" =>
          text = CapitalizeSentences(ReSub(PatPunctWord, ReSub(PatSpacePunct, ListedOrder(ctInput))))
    /\ (ctPc = "done" /\ ctInput = <<"P","I","T","O","N"," ","P","Y","T","H","E","N">>) =>
          text = <<"P","y","t","h","o","n">>
    /\ (ctPc = "done" /\ ctInput = <<"p","i","e"," ","p","i","e"," ","c","h","a","r","m">>) =>
          text = <<"P","i","e"," ","P","y","C","h","a","r","m">>

C8_Witness ==
    /\ ctPc = "done"
    /\ ctInput = <<"P","I","T","O","N"," ","P","Y","T","H","E","N">>
    /\ text = <<"P","y","t","h","o","n">>

\* s holds a word followed, across whitespace only, by the same word again
\* (compared case-insensitively)
HasRepeatedWord(s) ==
    \E p \in DOMAIN s :
        LET e1 == WordEnd(s, p)
            e2 == SpaceEnd(s, e1)
            e3 == WordEnd(s, e2)
        IN  /\ WordAt(s, p) /\ ~WordAt(s, p - 1)
            /\ e2 > e1
            /\ e3 - e2 = e1 - p
            /\ \A j \in 0..(e1 - p - 1) : LowerOf(s[p + j]) = LowerOf(s[e2 + j])

\* C9: the text _correct_transcript returns holds no word immediately
\* followed, across whitespace only, by the same word.
C9_NoRepeatedWord == ctPc = "done" => ~HasRepeatedWord(text)

-----------------------------------------------------------------------------
(* Properties of summarize_text                                            *)

\* C10: the model is called only for texts of at least 50 words, once, with
\* max_length = min(130, max(50, w div 4)) in 50..130 and
\* min_length = min(30, max_length div 2) in 25..30, below max_length; any
\* other text is returned unchanged without a call.
C10_LengthBounds ==
    /\ \A j \in DOMAIN modelCalls :
          LET w  == modelCalls[j].words
              mx == modelCalls[j].max_length
              mn == modelCalls[j].min_length
          IN  /\ transcription # NoneVal
              /\ w = WordCount(transcription)
              /\ w >= 50
              /\ mx = (IF w \div 4 < 50 THEN 50 ELSE IF w \div 4 > 130 THEN 130 ELSE w \div 4)
              /\ 50 <= mx /\ mx <= 130
              /\ mn = (IF mx \div 2 > 30 THEN 30 ELSE mx \div 2)
              /\ 25 <= mn /\ mn <= 30
              /\ mn < mx
    /\ pc = "returned" =>
          IF transcription = NoneVal \/ WordCount(transcription) < 50
          THEN modelCalls = <<>> /\ summary = transcription /\ console = <<>>
          ELSE Len(modelCalls) = 1

\* a text long enough for max_length to reach its cap
C10_Witness ==
    /\ pc = "returned"
    /\ WordCount(transcription) = 520
    /\ modelCalls = <<[max_length |-> 130, min_length |-> 30, words |-> 520]>>

\* the shortest text the model is called for
C10_WitnessShortest ==
    /\ pc = "returned"
    /\ modelCalls = <<[max_length |-> 50, min_length |-> 25, words |-> 50]>>

-----------------------------------------------------------------------------
(* Properties of summarize_video                                           *)

C6_TempFileDeleted == pc = "done" => ~fileExists

Stages == <<"extract", "transcribe", "summarize">>

\* C7: the stages run at most once each, in the order extraction,
\* transcription, summarization; transcription only after extraction returned
\* a path, summarization only after transcription returned a non-empty
\* transcript; after a failed stage no later stage runs.
C7_StageOrder ==
    /\ Len(calls) <= Len(Stages)
    /\ \A j \in DOMAIN calls : calls[j] = Stages[j]
    /\ Len(calls) >= 2 => (audio_file = TempAudio /\ "extract" \notin raised)
    /\ Len(calls) >= 3 => (Truthy(transcription) /\ "transcribe" \notin raised)
    /\ Len(modelCalls) <= 1
    /\ modelCalls # <<>> => Len(calls) = 3
    /\ "extract" \in raised => calls = <<"extract">>
    /\ "transcribe" \in raised => calls = <<"extract", "transcribe">>

\* a run that went through all three stages and called the model
C7_Witness ==
    /\ pc = "done"
    /\ calls = Stages
    /\ raised = {}
    /\ Len(modelCalls) = 1
    /\ result.returned = "dict"

=============================================================================
